---- MODULE Spec2Model ----
(***************************************************************************)
(* Framework classification: the scoring and labeling core                 *)
(* (models.py, framework_signal_scorer.py, repository_labeler.py) and the  *)
(* adjudication step of the crawler pipeline (github_crawler/pipeline.py,  *)
(* github_crawler/llm_validator.py).                                       *)
(*                                                                         *)
(* Representation                                                          *)
(*  - A Python dict is a sequence of entries in insertion order.           *)
(*  - Time is counted in days; datetime.now() is the variable now.         *)
(*  - A float ratio a/b is the record [num |-> a, den |-> b]; 0.0 is 0/1.  *)
(*    Thresholds 0.70 and 0.10 are percentages, and r >= t is compared by  *)
(*    cross-multiplication.  For the integers met here (below 2^20) the    *)
(*    IEEE-754 quotient compares with the double nearest to 0.70 or 0.10   *)
(*    exactly as the rationals do, and int(w * 0.5), int(s * 0.10) are the *)
(*    truncated quotients w/2 and s/10.                                    *)
(*  - None is the string "None" for optional strings and NoTimestamp for   *)
(*    an optional datetime.                                                *)
(***************************************************************************)
EXTENDS Integers, Sequences, FiniteSets, TLC

VARIABLES
    stage,      \* position of the repository in the pipeline
    signals,    \* SignalExtractedRepository.signals: framework -> [Signal]
    added,      \* number of signals appended after the extraction
    now,        \* the system clock, in days
    scored,     \* the ScoredRepository last returned by score_signals
    dominance_check,  \* what check_dominance last returned for scored, if called
    resolution, \* what resolve_conflicts returned inside label_repository
    labeled,    \* the LabeledRepository last returned by label_repository
    sample,     \* outcome of steps 6-7 of process_repository
    storage,    \* an OutputStorage: its four JSONL files and _loaded_repos
    scorer      \* the FrameworkSignalScorer: the thresholds of its __init__

vars ==
    <<stage, signals, added, now, scored, dominance_check, resolution, labeled, sample,
      storage, scorer>>

----------------------------------------------------------------------------
(* Bounds of the model *)

\* signals appended to an extracted signal set, one at a time
MaxAdded == 1
\* a weight argument that is in no row of the weight table
WrongWeight == 5
\* the clock at construction, how far one Tick moves it, and how often
StartDay == 1000
TickDays == 400
MaxTicks == 1
\* number of save_* calls on an OutputStorage
MaxSaves == 3

----------------------------------------------------------------------------
(* models.py *)

None == "None"
\* the truth value Python gives an Optional[str] in "if x" / "if not x"
Truthy(x) == x # None /\ x # ""
NoTimestamp == -1

STRONG == "STRONG"
WEAK == "WEAK"
SignalType == {STRONG, WEAK}

P1 == 1
P2 == 2
P3 == 3
P4 == 4
P5 == 5
P6 == 6
P7 == 7
PriorityLevel == P1..P7

PRIORITY_WEIGHTS == <<10, 8, 7, 6, 3, 2, 1>>

\* Signal.__post_init__ without the normalisation: the weight argument is kept
SignalTrusted(framework, signal_type, priority, weight, last_modified) ==
    [framework |-> framework, signal_type |-> signal_type, priority |-> priority,
     weight |-> weight, last_modified |-> last_modified]

\* Signal(...) followed by __post_init__: the weight is the table's value
Signal(framework, signal_type, priority, weight, last_modified) ==
    [framework |-> framework, signal_type |-> signal_type, priority |-> priority,
     weight |-> IF weight # PRIORITY_WEIGHTS[priority]
                THEN PRIORITY_WEIGHTS[priority] ELSE weight,
     last_modified |-> last_modified]

----------------------------------------------------------------------------
(* Helpers for dicts, sums and ratios *)

Range(s) == {s[i] : i \in 1..Len(s)}

RECURSIVE SumSeq(_)
SumSeq(s) == IF s = <<>> THEN 0 ELSE Head(s) + SumSeq(Tail(s))

\* dict.keys(), dict.get(k, 0) and dict.get(k, []) on a sequence of entries
Keys(d) == {d[i].framework : i \in 1..Len(d)}
GetScore(d, f) ==
    IF f \in Keys(d) THEN (CHOOSE e \in Range(d) : e.framework = f).score ELSE 0
GetSignals(d, f) ==
    IF f \in Keys(d) THEN (CHOOSE e \in Range(d) : e.framework = f).signal_list
    ELSE <<>>

\* int(x) of the quotient a / b, b > 0: truncation toward zero
TruncDiv(a, b) == IF a >= 0 THEN a \div b ELSE -((-a) \div b)

Ratio(a, b) == [num |-> a, den |-> b]
ZeroRatio == Ratio(0, 1)
\* ratio >= pct / 100, for den > 0
RatioGE(r, pct) == 100 * r.num >= pct * r.den

\* a descending sort that puts an entry ahead of its equals
RECURSIVE InsertDescAhead(_, _)
InsertDescAhead(sorted, e) ==
    IF sorted = <<>> THEN <<e>>
    ELSE IF Head(sorted).score > e.score
         THEN <<Head(sorted)>> \o InsertDescAhead(Tail(sorted), e)
         ELSE <<e>> \o sorted

\* sorted(items, key=score, reverse=True): stable, so equal scores keep
\* their dict order
RECURSIVE InsertDesc(_, _)
InsertDesc(sorted, e) ==
    IF sorted = <<>> THEN <<e>>
    ELSE IF Head(sorted).score >= e.score
         THEN <<Head(sorted)>> \o InsertDesc(Tail(sorted), e)
         ELSE <<e>> \o sorted

RECURSIVE SortedDesc(_)
SortedDesc(items) ==
    IF items = <<>> THEN <<>>
    ELSE InsertDesc(SortedDesc(SubSeq(items, 1, Len(items) - 1)), items[Len(items)])

\* max(items, key=score): the first entry holding the maximal score
MaxEntry(items) ==
    LET best == CHOOSE i \in 1..Len(items) :
                   /\ \A j \in 1..Len(items) : items[j].score <= items[i].score
                   /\ \A j \in 1..(i - 1) : items[j].score < items[i].score
    IN items[best]

----------------------------------------------------------------------------
(* framework_signal_scorer.py: FrameworkSignalScorer *)

\* the class constants, which are the defaults of __init__ (percentages
\* for the two ratios)
DOMINANCE_THRESHOLD == 70
MINIMUM_GAP_RATIO == 10
P3_P4_THRESHOLD == 15
WEAK_SIGNAL_THRESHOLD == 5

\* __init__: the scorer keeps its three thresholds
FrameworkSignalScorer(dominance_threshold, minimum_gap_ratio, p3_p4_threshold) ==
    [dominance_threshold |-> dominance_threshold,
     minimum_gap_ratio |-> minimum_gap_ratio,
     p3_p4_threshold |-> p3_p4_threshold]

\* a scorer constructed with a dominance threshold of one half
LenientScorer ==
    FrameworkSignalScorer(50, MINIMUM_GAP_RATIO, P3_P4_THRESHOLD)

\* FrameworkSignalScorer(), as the pipeline constructs it
DefaultScorer ==
    FrameworkSignalScorer(DOMINANCE_THRESHOLD, MINIMUM_GAP_RATIO, P3_P4_THRESHOLD)
\* timedelta(days=365)
RecencyDays == 365

\* s.last_modified and s.last_modified >= datetime.now() - timedelta(days=365)
IsRecent(s, clock) ==
    s.last_modified # NoTimestamp /\ s.last_modified >= clock - RecencyDays

Weights(signal_list) == [i \in 1..Len(signal_list) |-> signal_list[i].weight]

HasPriority(signal_list, p) == \E i \in 1..Len(signal_list) : signal_list[i].priority = p

\* the frameworks holding a signal of priority p, in dict order
RECURSIVE FrameworksWith(_, _)
FrameworksWith(sigs, p) ==
    IF sigs = <<>> THEN <<>>
    ELSE (IF HasPriority(Head(sigs).signal_list, p)
          THEN <<Head(sigs).framework>> ELSE <<>>) \o FrameworksWith(Tail(sigs), p)

\* _calculate_framework_scores with a score entry, 0 to begin with, for every
\* key of the mapping
RECURSIVE calculate_framework_scores_all_keys(_)
calculate_framework_scores_all_keys(sigs) ==
    IF sigs = <<>> THEN <<>>
    ELSE <<[framework |-> Head(sigs).framework,
            score |-> SumSeq(Weights(Head(sigs).signal_list))]>>
         \o calculate_framework_scores_all_keys(Tail(sigs))

\* _calculate_framework_scores: a defaultdict(int) gets a key only when a
\* signal is added to it, so a framework with an empty list gets no entry
RECURSIVE calculate_framework_scores(_)
calculate_framework_scores(sigs) ==
    IF sigs = <<>> THEN <<>>
    ELSE (IF Head(sigs).signal_list = <<>> THEN <<>>
          ELSE <<[framework |-> Head(sigs).framework,
                  score |-> SumSeq(Weights(Head(sigs).signal_list))]>>)
         \o calculate_framework_scores(Tail(sigs))

\* the same with every half rounded up
RECURSIVE ReductionRoundedUp(_)
ReductionRoundedUp(signal_list) ==
    IF signal_list = <<>> THEN 0
    ELSE (IF Head(signal_list).priority >= P5
          THEN TruncDiv(Head(signal_list).weight + 1, 2) ELSE 0)
         + ReductionRoundedUp(Tail(signal_list))

\* the total of int(signal.weight * 0.5) over the P5- signals of a list
RECURSIVE Reduction(_)
Reduction(signal_list) ==
    IF signal_list = <<>> THEN 0
    ELSE (IF Head(signal_list).priority >= P5
          THEN TruncDiv(Head(signal_list).weight, 2) ELSE 0)
         + Reduction(Tail(signal_list))

\* _apply_priority_rules
apply_priority_rules(framework_scores, sigs) ==
    LET p1_frameworks == Range(FrameworksWith(sigs, P1))
    IN IF p1_frameworks # {}
       THEN [i \in 1..Len(framework_scores) |->
               LET f == framework_scores[i].framework
               IN IF f \notin p1_frameworks
                  THEN [framework |-> f,
                        score |-> framework_scores[i].score
                                  - Reduction(GetSignals(sigs, f))]
                  ELSE framework_scores[i]]
       ELSE framework_scores

\* the same without the recency rule
no_recency_weighting(framework_scores, sigs, clock) == framework_scores

\* _apply_recency_weighting
apply_recency_weighting(framework_scores, sigs, clock) ==
    [i \in 1..Len(framework_scores) |->
        LET f == framework_scores[i].framework
            signal_list == GetSignals(sigs, f)
            Recent(s) == IsRecent(s, clock)
            recent_signals == SelectSeq(signal_list, Recent)
        IN IF recent_signals # <<>> /\ 2 * Len(recent_signals) >= Len(signal_list)
           THEN [framework |-> f,
                 score |-> framework_scores[i].score
                           + TruncDiv(framework_scores[i].score, 10)]
           ELSE framework_scores[i]]

\* ScoredRepository(...) of "Step 4" with a dominance ratio that divides
\* without the guard "if total_score > 0"
dominance_metrics_unguarded(sigs, framework_scores) ==
    LET competing_frameworks == SortedDesc(framework_scores)
        total_score == SumSeq([i \in 1..Len(framework_scores) |->
                                  framework_scores[i].score])
        top_score == IF competing_frameworks # <<>>
                     THEN competing_frameworks[1].score ELSE 0
        second_score == IF Len(competing_frameworks) >= 2
                        THEN competing_frameworks[2].score ELSE 0
    IN [signal_extracted |-> sigs,
        framework_scores |-> framework_scores,
        competing_frameworks |-> competing_frameworks,
        total_score |-> total_score,
        dominance_ratio |-> Ratio(top_score, total_score),
        score_gap |-> top_score - second_score]

\* score_signals, "Step 4: Calculate dominance metrics", and the
\* ScoredRepository it returns
dominance_metrics(sigs, framework_scores) ==
    LET competing_frameworks == SortedDesc(framework_scores)
        total_score == SumSeq([i \in 1..Len(framework_scores) |->
                                  framework_scores[i].score])
        top_score == IF competing_frameworks # <<>>
                     THEN competing_frameworks[1].score ELSE 0
        second_score == IF Len(competing_frameworks) >= 2
                        THEN competing_frameworks[2].score ELSE 0
    IN [signal_extracted |-> sigs,
        framework_scores |-> framework_scores,
        competing_frameworks |-> competing_frameworks,
        total_score |-> total_score,
        dominance_ratio |-> IF total_score > 0
                            THEN Ratio(top_score, total_score) ELSE ZeroRatio,
        score_gap |-> top_score - second_score]

\* score_signals; clock is what datetime.now() returns during the call
score_signals(sigs, clock) ==
    dominance_metrics(
        sigs,
        apply_recency_weighting(
            apply_priority_rules(calculate_framework_scores(sigs), sigs),
            sigs, clock))

\* ScoredRepository.get_top_framework / get_second_framework, by score
TopScore(sc) == sc.competing_frameworks[1].score
SecondScore(sc) ==
    IF Len(sc.competing_frameworks) >= 2 THEN sc.competing_frameworks[2].score ELSE 0

\* check_dominance with "or" in place of "and"
check_dominance_either(sc) ==
    IF sc.competing_frameworks = <<>>
    THEN [is_dominant |-> FALSE, framework |-> None]
    ELSE LET top_score == TopScore(sc)
             meets_threshold == RatioGE(sc.dominance_ratio, scorer.dominance_threshold)
             meets_gap == IF top_score > 0
                          THEN 100 * sc.score_gap >= scorer.minimum_gap_ratio * top_score
                          ELSE FALSE
         IN [is_dominant |-> meets_threshold \/ meets_gap,
             framework |-> sc.competing_frameworks[1].framework]

\* check_dominance
check_dominance(sc) ==
    IF sc.competing_frameworks = <<>>
    THEN [is_dominant |-> FALSE, framework |-> None]
    ELSE LET top_framework == sc.competing_frameworks[1].framework
             top_score == TopScore(sc)
             meets_threshold == RatioGE(sc.dominance_ratio, scorer.dominance_threshold)
             \* gap_ratio is 0.0 when top_score <= 0, and 0.0 >= 0.10 is false
             meets_gap == IF top_score > 0
                          THEN 100 * sc.score_gap >= scorer.minimum_gap_ratio * top_score
                          ELSE FALSE
         IN IF meets_threshold /\ ~meets_gap
            THEN [is_dominant |-> FALSE, framework |-> top_framework]
            ELSE [is_dominant |-> meets_threshold /\ meets_gap,
                  framework |-> top_framework]

\* a return of determine_confidence_level: the level and the rule it
\* belongs to
Rule(level, rule) == [level |-> level, rule |-> rule]

\* determine_confidence_level with Level 1 for more than 3 STRONG signals
confidence_rule_four_strong(sc, clock) ==
    IF sc.competing_frameworks = <<>> THEN Rule(4, "no frameworks")
    ELSE
    LET top_framework == sc.competing_frameworks[1].framework
        signal_list == GetSignals(sc.signal_extracted, top_framework)
        IsStrong(s) == s.signal_type = STRONG
        IsWeak(s) == s.signal_type = WEAK
        Recent(s) == IsRecent(s, clock)
        IsP3P4(s) == s.priority \in {P3, P4}
        strong_signals == SelectSeq(signal_list, IsStrong)
        weak_signals == SelectSeq(signal_list, IsWeak)
        strong_count == Len(strong_signals)
        weak_count == Len(weak_signals)
        recent_signals == SelectSeq(strong_signals, Recent)
        p3_p4_score == SumSeq(Weights(SelectSeq(signal_list, IsP3P4)))
        weak_sum == SumSeq(Weights(weak_signals))
    IN  \* "if not top_framework": an empty framework name
        IF top_framework = "" THEN Rule(4, "no top framework")
        ELSE IF strong_count > 3 /\ Len(recent_signals) >= 2 THEN Rule(1, "Level 1")
        ELSE IF strong_count = 2 /\ weak_count >= 2 THEN Rule(2, "Level 2")
        ELSE IF p3_p4_score >= scorer.p3_p4_threshold THEN Rule(2, "Level 2 alternative")
        ELSE IF strong_count = 1 \/ (strong_count = 0 /\ weak_count > 0)
             THEN Rule(3, "Level 3")
        ELSE IF strong_count = 0 /\ weak_sum < WEAK_SIGNAL_THRESHOLD
             THEN Rule(4, "Level 4")
        ELSE Rule(3, "Default")

\* determine_confidence_level up to its return statement: the level it
\* returns and the rule whose return it is; clock is what datetime.now()
\* returns
confidence_rule(sc, clock) ==
    IF sc.competing_frameworks = <<>> THEN Rule(4, "no frameworks")
    ELSE
    LET top_framework == sc.competing_frameworks[1].framework
        signal_list == GetSignals(sc.signal_extracted, top_framework)
        IsStrong(s) == s.signal_type = STRONG
        IsWeak(s) == s.signal_type = WEAK
        Recent(s) == IsRecent(s, clock)
        IsP3P4(s) == s.priority \in {P3, P4}
        strong_signals == SelectSeq(signal_list, IsStrong)
        weak_signals == SelectSeq(signal_list, IsWeak)
        strong_count == Len(strong_signals)
        weak_count == Len(weak_signals)
        recent_signals == SelectSeq(strong_signals, Recent)
        p3_p4_score == SumSeq(Weights(SelectSeq(signal_list, IsP3P4)))
        weak_sum == SumSeq(Weights(weak_signals))
    IN  \* "if not top_framework": an empty framework name
        IF top_framework = "" THEN Rule(4, "no top framework")
        ELSE IF strong_count >= 3 /\ Len(recent_signals) >= 2 THEN Rule(1, "Level 1")
        ELSE IF strong_count = 2 /\ weak_count >= 2 THEN Rule(2, "Level 2")
        ELSE IF p3_p4_score >= scorer.p3_p4_threshold THEN Rule(2, "Level 2 alternative")
        ELSE IF strong_count = 1 \/ (strong_count = 0 /\ weak_count > 0)
             THEN Rule(3, "Level 3")
        ELSE IF strong_count = 0 /\ weak_sum < WEAK_SIGNAL_THRESHOLD
             THEN Rule(4, "Level 4")
        ELSE Rule(3, "Default")

\* determine_confidence_level
determine_confidence_level(sc, clock) == confidence_rule(sc, clock).level

\* {f: scored.framework_scores.get(f, 0) for f in frameworks}.items()
ScoresOf(sc, frameworks) ==
    [i \in 1..Len(frameworks) |->
        [framework |-> frameworks[i],
         score |-> GetScore(sc.framework_scores, frameworks[i])]]

TotalOf(items) == SumSeq([i \in 1..Len(items) |-> items[i].score])

\* the frameworks holding a P2 signal, for those holding P2 or stronger
P2OnlyFrameworks(sigs) == FrameworksWith(sigs, P2)

\* the frameworks holding a signal of priority P2 or stronger, in dict order
RECURSIVE P2PlusFrameworks(_)
P2PlusFrameworks(sigs) ==
    IF sigs = <<>> THEN <<>>
    ELSE (IF \E i \in 1..Len(Head(sigs).signal_list) :
                Head(sigs).signal_list[i].priority <= P2
          THEN <<Head(sigs).framework>> ELSE <<>>) \o P2PlusFrameworks(Tail(sigs))

\* every signal has a priority of the band that starts at p: P3 to P4, or
\* P5 to P7
AllInBand(sigs, p) ==
    \A i \in 1..Len(sigs) :
        \A j \in 1..Len(sigs[i].signal_list) :
            /\ sigs[i].signal_list[j].priority >= p
            /\ sigs[i].signal_list[j].priority <= (IF p = P3 THEN P4 ELSE P7)

\* all(all(s.priority >= p for s in signal_list) for signal_list in signals.values())
AllAtLeast(sigs, p) ==
    \A i \in 1..Len(sigs) :
        \A j \in 1..Len(sigs[i].signal_list) : sigs[i].signal_list[j].priority >= p

Resolved(f) == [framework |-> f, reason |-> None]
Unresolved(why) == [framework |-> None, reason |-> why]

\* resolve_conflicts from its "Decision Tree Step 2" on
resolve_below_p1(sc) ==
    LET sigs == sc.signal_extracted
        top_framework == sc.competing_frameworks[1].framework
        top_score == TopScore(sc)
        p1_frameworks == FrameworksWith(sigs, P1)
        p2_frameworks == FrameworksWith(sigs, P2)
        p2_plus_frameworks == P2PlusFrameworks(sigs)
        p2_plus_scores == ScoresOf(sc, p2_plus_frameworks)
        p2_plus_total == TotalOf(p2_plus_scores)
        p2_plus_top == MaxEntry(p2_plus_scores)
        dominance == check_dominance(sc)
    IN IF p2_frameworks # <<>> /\ p1_frameworks = <<>> /\ Len(p2_frameworks) = 1
       THEN Resolved(p2_frameworks[1])
       ELSE IF Len(p2_plus_frameworks) > 1
       THEN IF /\ p2_plus_total > 0
               /\ 100 * p2_plus_top.score >= scorer.dominance_threshold * p2_plus_total
            THEN Resolved(p2_plus_top.framework)
            ELSE Unresolved("Multiple frameworks with similar P2+ signals")
       ELSE IF AllAtLeast(sigs, P3)
       THEN IF top_score >= scorer.p3_p4_threshold
            THEN Resolved(top_framework)
            ELSE Unresolved("Insufficient P3-P4 signal strength")
       ELSE IF AllAtLeast(sigs, P5)
       THEN Unresolved("Only weak signals (P5-) detected")
       ELSE IF dominance.is_dominant
       THEN Resolved(dominance.framework)
       ELSE IF top_score > 0 /\ 100 * sc.score_gap < scorer.minimum_gap_ratio * top_score
       THEN Unresolved("Top two frameworks too close (gap < 10%)")
       ELSE Unresolved("Cannot resolve framework conflict")

\* resolve_conflicts with the single-P1 shortcut left to the score comparison
resolve_conflicts_by_score(sc) ==
    IF sc.competing_frameworks = <<>>
    THEN Unresolved("No framework signals detected")
    ELSE Resolved(sc.competing_frameworks[1].framework)

\* resolve_conflicts.  The P1 frameworks are never in the halved group of
\* _apply_priority_rules, so their scores sum to more than 0 and p1_ratio
\* divides by a positive number.
resolve_conflicts(sc) ==
    IF sc.competing_frameworks = <<>>
    THEN Unresolved("No framework signals detected")
    ELSE
    LET p1_frameworks == FrameworksWith(sc.signal_extracted, P1)
        p1_scores == ScoresOf(sc, p1_frameworks)
        p1_top == MaxEntry(p1_scores)
    IN IF p1_frameworks # <<>> /\ Len(p1_frameworks) = 1
       THEN Resolved(p1_frameworks[1])
       ELSE IF /\ p1_frameworks # <<>>
               /\ 100 * p1_top.score >= scorer.dominance_threshold * TotalOf(p1_scores)
       THEN Resolved(p1_top.framework)
       ELSE resolve_below_p1(sc)

----------------------------------------------------------------------------
(* repository_labeler.py: RepositoryLabeler *)

UNKNOWN == "unknown"
UNCERTAIN == "uncertain"

LabeledRepository(primary_framework, confidence_level, label, rejection_reason, requires_llm_validation) ==
    [primary_framework |-> primary_framework,
     confidence_level |-> confidence_level,
     label |-> label,
     rejection_reason |-> rejection_reason,
     requires_llm_validation |-> requires_llm_validation]

\* the last step of label_repository: "Determine rejection reason if needed"
WithReason(primary_framework, confidence_level, label, rejection_reason, requires_llm) ==
    LabeledRepository(
        primary_framework, confidence_level, label,
        IF label \in {UNKNOWN, UNCERTAIN} /\ ~Truthy(rejection_reason)
        THEN IF confidence_level = 4 THEN "No STRONG signals detected"
             ELSE IF ~Truthy(primary_framework)
                  THEN "Cannot determine primary framework"
                  ELSE "Insufficient dominance or confidence"
        ELSE rejection_reason,
        requires_llm)

\* label_repository after the Level 4 override, trusting the resolver alone
label_by_resolver(sc, confidence_level, resolved) ==
    IF Truthy(resolved.framework)
    THEN WithReason(resolved.framework, confidence_level, resolved.framework,
                    resolved.reason, confidence_level >= 3)
    ELSE WithReason(resolved.framework, confidence_level,
                    IF confidence_level = 4 THEN UNKNOWN ELSE UNCERTAIN,
                    resolved.reason, TRUE)

\* label_repository after the Level 4 override
label_by_dominance(sc, confidence_level, resolved) ==
    LET dominance == check_dominance(sc)
        primary_framework == resolved.framework
        fallback_label == IF confidence_level < 4 THEN UNCERTAIN ELSE UNKNOWN
    IN IF Truthy(primary_framework) /\ ~dominance.is_dominant
       THEN IF Len(sc.competing_frameworks) >= 2
            THEN IF TopScore(sc) > 0
                 THEN IF /\ RatioGE(sc.dominance_ratio, scorer.dominance_threshold)
                         /\ 100 * (TopScore(sc) - SecondScore(sc))
                               < scorer.minimum_gap_ratio * TopScore(sc)
                      THEN WithReason(None, confidence_level, UNCERTAIN,
                                      "Top two frameworks within 10% gap (dominance threshold met but gap insufficient)",
                                      TRUE)
                      ELSE WithReason(primary_framework, confidence_level,
                                      primary_framework, resolved.reason,
                                      confidence_level >= 3)
                 ELSE WithReason(primary_framework, confidence_level,
                                 fallback_label, resolved.reason, TRUE)
            ELSE WithReason(primary_framework, confidence_level,
                            fallback_label, resolved.reason, TRUE)
       ELSE IF dominance.is_dominant /\ Truthy(dominance.framework)
       THEN WithReason(dominance.framework, confidence_level,
                       dominance.framework, resolved.reason, confidence_level >= 3)
       ELSE IF Truthy(primary_framework)
       THEN WithReason(primary_framework, confidence_level, primary_framework,
                       resolved.reason, confidence_level >= 3)
       ELSE WithReason(primary_framework, confidence_level,
                       IF confidence_level = 4 THEN UNKNOWN ELSE UNCERTAIN,
                       resolved.reason, TRUE)

\* label_repository without the Level 4 override
label_repository_no_override(sc, clock) ==
    label_by_dominance(sc, determine_confidence_level(sc, clock), resolve_conflicts(sc))

\* label_repository; clock is what datetime.now() returns during the call
label_repository(sc, clock) ==
    LET confidence_level == determine_confidence_level(sc, clock)
        resolved == resolve_conflicts(sc)
    IN IF confidence_level = 4
       THEN LabeledRepository(None, 4, UNKNOWN, "No STRONG signals detected", FALSE)
       ELSE label_by_dominance(sc, confidence_level, resolved)

\* should_include_in_training that also admits Level 3
should_include_level3(lab) ==
    /\ lab.label \notin {UNKNOWN, UNCERTAIN}
    /\ lab.confidence_level # 4
    /\ lab.confidence_level <= 3 /\ Truthy(lab.primary_framework)

\* should_include_in_training
should_include_in_training(lab) ==
    IF lab.label \in {UNKNOWN, UNCERTAIN} THEN FALSE
    ELSE IF lab.confidence_level = 4 THEN FALSE
    ELSE IF lab.confidence_level <= 2 /\ Truthy(lab.primary_framework) THEN TRUE
    ELSE FALSE

----------------------------------------------------------------------------
(* github_crawler/llm_validator.py and step 6-7 of process_repository *)

\* what the validator hands to _parse_llm_response
Response(form, primary_framework, confidence) ==
    [form |-> form, primary_framework |-> primary_framework, confidence |-> confidence]

\* _fallback_response: a dict, not a JSON string
fallback_response(lab) ==
    Response("dict", lab.primary_framework,
             IF lab.confidence_level = 2 THEN "medium" ELSE "low")

\* _fallback_response_from_prompt: json.dumps of the "LLM not configured" answer
fallback_response_from_prompt == Response("json_object", None, "low")

LLMValidationResult(primary_framework, confidence) ==
    [raised |-> FALSE, primary_framework |-> primary_framework,
     confidence |-> confidence]
\* an exception leaves the call
Raised == [raised |-> TRUE, primary_framework |-> None, confidence |-> "low"]

\* _parse_llm_response.  json.loads raises TypeError for an argument that is
\* no str (not a JSONDecodeError, so it is not caught), JSONDecodeError for
\* text that is no JSON, and returns a list, number or string for JSON that
\* is no object, on which data.get raises AttributeError.
parse_llm_response(response, lab) ==
    IF response.form = "dict" THEN Raised
    ELSE IF response.form = "not_json"
    THEN LLMValidationResult(lab.primary_framework, "low")
    ELSE IF response.form = "json_other" THEN Raised
    ELSE LLMValidationResult(response.primary_framework, response.confidence)

\* _call_llm: client is "plain" for a client object without chat_completions,
\* "chat" for one with it; reply is what chat_completions does
call_llm(client, reply) ==
    IF client = "chat" /\ reply.form # "raise" THEN reply
    ELSE fallback_response_from_prompt

\* validate_repository; client is "none" when LLMValidator has no llm_client
validate_repository(lab, client, reply) ==
    parse_llm_response(
        IF client # "none" THEN call_llm(client, reply) ELSE fallback_response(lab),
        lab)

\* step 6 of process_repository: the update of labeled from the LLM result
adjudicated(lab, llm_result) ==
    IF Truthy(llm_result.primary_framework)
    THEN [lab EXCEPT !.primary_framework = llm_result.primary_framework,
                     !.label = llm_result.primary_framework,
                     !.confidence_level =
                         IF llm_result.confidence = "high" THEN 1
                         ELSE IF llm_result.confidence = "medium" THEN 2 ELSE 3]
    ELSE lab

\* steps 6 and 7 of process_repository; validator is "disabled" when
\* config.use_llm_validation is off
process_labeled(lab, validator, reply) ==
    LET llm_result == validate_repository(lab, validator, reply)
        final == IF validator # "disabled" /\ lab.requires_llm_validation
                 THEN adjudicated(lab, llm_result) ELSE lab
    IN IF validator # "disabled" /\ lab.requires_llm_validation /\ llm_result.raised
       THEN [outcome |-> "raised", validator |-> validator, reply |-> reply.form,
             labeled |-> lab]
       ELSE [outcome |-> IF should_include_in_training(final)
                         THEN "accepted" ELSE "rejected",
             validator |-> validator, reply |-> reply.form, labeled |-> final]

----------------------------------------------------------------------------
(* github_crawler/storage.py: OutputStorage *)

\* the four files of __init__, in the order of _load_existing_repos
Streams == <<"accepted", "uncertain", "unknown", "rejected">>

\* OutputStorage(output_dir, check_duplicates) over a directory without
\* output files: _load_existing_repos finds nothing
OutputStorage(check_duplicates) ==
    [check_duplicates |-> check_duplicates,
     loaded_repos |-> {},
     files |-> [f \in Range(Streams) |-> <<>>],
     saves |-> 0,
     last_url |-> None]

\* the object before its construction
NoStorage == [OutputStorage(FALSE) EXCEPT !.saves = -1]

\* sample.to_training_json() / sample.to_dict(): the record written as one
\* line, with metadata.repository_url, label and the sample's class
to_json(smp) ==
    [repository_url |-> smp.repository_url, label |-> smp.label, kind |-> smp.kind]

\* _is_duplicate that never finds a URL
is_duplicate_never(st, repo_url) == FALSE

\* _is_duplicate
is_duplicate(st, repo_url) ==
    IF ~st.check_duplicates THEN FALSE ELSE repo_url \in st.loaded_repos

\* _append_jsonl: the line is written, and a non-empty URL is remembered
append_jsonl(st, file, data) ==
    [st EXCEPT !.files[file] = Append(@, data),
               !.loaded_repos = IF st.check_duplicates /\ data.repository_url # ""
                                THEN @ \cup {data.repository_url} ELSE @]

\* the body shared by save_accepted, save_uncertain, save_unknown and
\* save_rejected, for the file each of them writes
save_to(st, file, smp) ==
    IF is_duplicate(st, smp.repository_url) THEN st
    ELSE append_jsonl(st, file, to_json(smp))

save_accepted(st, smp) == save_to(st, "accepted", smp)
save_uncertain(st, smp) == save_to(st, "uncertain", smp)
save_unknown(st, smp) == save_to(st, "unknown", smp)
save_rejected(st, smp) == save_to(st, "rejected", smp)

\* save_sample
save_sample(st, smp) ==
    IF smp.kind = "AcceptedSample" THEN save_accepted(st, smp)
    ELSE IF smp.label = UNCERTAIN THEN save_uncertain(st, smp)
    ELSE IF smp.label = UNKNOWN THEN save_unknown(st, smp)
    ELSE save_rejected(st, smp)

----------------------------------------------------------------------------
(* Inputs *)

FrameworkNames == <<"django", "fastapi", "vue3">>

\* signal_adapter.py: recent_date = now - 30 days at construction
RecentDays == 30
Stamp == StartDay - RecentDays
Timestamps == {NoTimestamp, Stamp}

Dated(f, t, p) == Signal(f, t, p, PRIORITY_WEIGHTS[p], Stamp)
Undated(f, t, p) == Signal(f, t, p, PRIORITY_WEIGHTS[p], NoTimestamp)
Entry(f, signal_list) == [framework |-> f, signal_list |-> signal_list]

\* the signal sets an extraction may hand over
Repositories ==
    { <<>>,
      <<Entry("django", <<>>), Entry("fastapi", <<>>)>>,
      \* one framework, P1 + P2 + P3, all STRONG and recent
      <<Entry("django", <<Dated("django", STRONG, P1), Dated("django", STRONG, P2),
                          Dated("django", STRONG, P3)>>)>>,
      \* two frameworks with one P3 signal each
      <<Entry("django", <<Undated("django", STRONG, P3)>>),
        Entry("fastapi", <<Undated("fastapi", STRONG, P3)>>)>>,
      \* one README mention
      <<Entry("vue3", <<Undated("vue3", WEAK, P7)>>)>>,
      \* a close race below P2: 15 (boosted) against 14
      <<Entry("django", <<Dated("django", STRONG, P3), Dated("django", STRONG, P3)>>),
        Entry("fastapi", <<Undated("fastapi", STRONG, P3), Undated("fastapi", STRONG, P3)>>)>>,
      \* four entry points, half of them recent, against an entry point and
      \* four directory structures: 44 (boosted) against 42
      <<Entry("django", <<Dated("django", STRONG, P1), Dated("django", STRONG, P1),
                          Undated("django", STRONG, P1), Undated("django", STRONG, P1)>>),
        Entry("fastapi", <<Undated("fastapi", STRONG, P1), Undated("fastapi", STRONG, P2),
                           Undated("fastapi", STRONG, P2), Undated("fastapi", STRONG, P2),
                           Undated("fastapi", STRONG, P2)>>)>>,
      \* two frameworks with entry points, 25 against 10
      <<Entry("django", <<Undated("django", STRONG, P1), Undated("django", STRONG, P2),
                          Undated("django", STRONG, P3)>>),
        Entry("fastapi", <<Undated("fastapi", STRONG, P1)>>)>>,
      \* directory structures without an entry point, 24 against 8
      <<Entry("django", <<Undated("django", STRONG, P2), Undated("django", STRONG, P2),
                          Undated("django", STRONG, P2)>>),
        Entry("fastapi", <<Undated("fastapi", STRONG, P2)>>)>>,
      \* an entry point against a dominant directory structure, 10 against 24
      <<Entry("django", <<Undated("django", STRONG, P1)>>),
        Entry("fastapi", <<Undated("fastapi", STRONG, P2), Undated("fastapi", STRONG, P2),
                           Undated("fastapi", STRONG, P2)>>)>>,
      \* an entry point against six dependency hints, 10 against 12
      <<Entry("django", <<Undated("django", STRONG, P1)>>),
        Entry("fastapi", <<Undated("fastapi", WEAK, P5), Undated("fastapi", WEAK, P5),
                           Undated("fastapi", WEAK, P5), Undated("fastapi", WEAK, P5),
                           Undated("fastapi", WEAK, P5), Undated("fastapi", WEAK, P5)>>)>>,
      \* two STRONG and two WEAK signals
      <<Entry("django", <<Undated("django", STRONG, P1), Undated("django", STRONG, P2),
                          Undated("django", WEAK, P5), Undated("django", WEAK, P6)>>)>>,
      \* the evidence of scenario A under an empty framework name
      <<Entry("", <<Dated("", STRONG, P1), Dated("", STRONG, P2),
                    Dated("", STRONG, P3)>>)>> }

\* the replies of an LLM client: it fails, answers no JSON, JSON that is no
\* object, or an object naming a framework, null or the word "unknown"
Replies ==
    {Response("raise", None, "low"), Response("not_json", None, "low"),
     Response("json_other", None, "low")}
    \cup {Response("json_object", f, c) :
             f \in Range(FrameworkNames) \cup {None, UNKNOWN},
             c \in {"high", "medium", "low"}}

Validators == {"disabled", "none", "plain", "chat"}

\* metadata.repository_url of the samples handed to the storage
RepositoryUrls == {"", "https://github.com/o/a", "https://github.com/o/b"}

\* the samples of step 7: an AcceptedSample has a framework label, a
\* RejectedSample any label
AcceptedSamples ==
    {[kind |-> "AcceptedSample", repository_url |-> u, label |-> "django"] :
        u \in RepositoryUrls}
RejectedSamples ==
    {[kind |-> "RejectedSample", repository_url |-> u, label |-> l] :
        u \in RepositoryUrls, l \in {"django", UNCERTAIN, UNKNOWN}}

----------------------------------------------------------------------------
(* State machine *)

NoScored ==
    [signal_extracted |-> <<>>, framework_scores |-> <<>>,
     competing_frameworks |-> <<>>, total_score |-> 0,
     dominance_ratio |-> ZeroRatio, score_gap |-> 0]
NoLabeled == LabeledRepository(None, 0, None, None, FALSE)
NoReply == Response("unused", None, "low")
NoSample == [outcome |-> "none", validator |-> "disabled", reply |-> "unused",
             labeled |-> NoLabeled]

Init ==
    /\ stage = "raw"
    /\ signals = <<>>
    /\ added = 0
    /\ now = StartDay
    /\ scored = NoScored
    /\ dominance_check = <<>>
    /\ resolution = Unresolved(None)
    /\ labeled = NoLabeled
    /\ sample = NoSample
    /\ storage = NoStorage
    /\ scorer = DefaultScorer

\* step 3 of process_repository: the extraction hands over a signal set
ExtractSignals ==
    /\ stage = "raw"
    /\ \E repo \in Repositories : signals' = repo
    /\ stage' = "signal_extracted"
    /\ UNCHANGED <<added, now, scored, dominance_check, resolution, labeled, sample>>
    /\ UNCHANGED <<storage, scorer>>

\* dict[f].append(signal), with a new key when f is not in the dict
AppendSignal(sigs, s) ==
    IF s.framework \in Keys(sigs)
    THEN [i \in 1..Len(sigs) |->
            IF sigs[i].framework = s.framework
            THEN Entry(s.framework, Append(sigs[i].signal_list, s)) ELSE sigs[i]]
    ELSE Append(sigs, Entry(s.framework, <<s>>))

\* the frameworks of the mapping and the first name not yet in it
Targets(sigs) ==
    Keys(sigs) \cup
    {FrameworkNames[i] : i \in {j \in 1..Len(FrameworkNames) :
        /\ FrameworkNames[j] \notin Keys(sigs)
        /\ \A k \in 1..(j - 1) : FrameworkNames[k] \in Keys(sigs)}}

\* one more Signal is constructed and joins the signal set of a new snapshot;
\* its caller passes weight WrongWeight whatever the priority (the signals of
\* Repositories are constructed with the weight of their priority)
NewSignal ==
    /\ stage \in {"signal_extracted", "scored"}
    /\ added < MaxAdded
    /\ \E f \in Targets(signals), t \in SignalType, p \in PriorityLevel,
          lm \in Timestamps :
          signals' = AppendSignal(signals, Signal(f, t, p, WrongWeight, lm))
    /\ added' = added + 1
    /\ UNCHANGED <<stage, now, scored, dominance_check, resolution, labeled, sample>>
    /\ UNCHANGED <<storage, scorer>>

\* step 4 with a scorer that deletes the frameworks without signals from the
\* mapping it was given
ScoreSignalsInPlace ==
    /\ stage \in {"signal_extracted", "scored"}
    /\ scored' = score_signals(signals, now)
    /\ signals' = LET HasSignals(e) == e.signal_list # <<>>
                  IN SelectSeq(signals, HasSignals)
    /\ dominance_check' = <<>>
    /\ stage' = "scored"
    /\ UNCHANGED <<added, now, resolution, labeled, sample>>
    /\ UNCHANGED <<storage, scorer>>

\* step 4: scored = self.scorer.score_signals(signal_extracted)
ScoreSignals ==
    /\ stage \in {"signal_extracted", "scored"}
    /\ scored' = score_signals(signals, now)
    /\ dominance_check' = <<>>
    /\ stage' = "scored"
    /\ UNCHANGED <<signals, added, now, resolution, labeled, sample>>
    /\ UNCHANGED <<storage, scorer>>

\* a caller asks check_dominance about the scored repository
CheckDominance ==
    /\ stage = "scored"
    /\ dominance_check = <<>>
    /\ dominance_check' = <<check_dominance(scored)>>
    /\ UNCHANGED <<stage, signals, added, now, scored, resolution, labeled, sample>>
    /\ UNCHANGED <<storage, scorer>>

\* step 5: labeled = self.labeler.label_repository(scored)
LabelRepository ==
    /\ stage \in {"scored", "labeled"}
    /\ scored.signal_extracted = signals
    /\ labeled' = label_repository(scored, now)
    /\ resolution' = resolve_conflicts(scored)
    /\ dominance_check' = IF determine_confidence_level(scored, now) = 4
                    THEN dominance_check ELSE <<check_dominance(scored)>>
    /\ stage' = "labeled"
    /\ UNCHANGED <<signals, added, now, scored, sample>>
    /\ UNCHANGED <<storage, scorer>>

\* steps 6 and 7: adjudication and the sample; the client is called, and
\* replies, only for a labeled repository that requires validation
ProcessLabeled ==
    /\ stage = "labeled"
    /\ \E validator \in Validators :
          \E reply \in (IF validator = "chat" /\ labeled.requires_llm_validation
                        THEN Replies ELSE {NoReply}) :
             sample' = process_labeled(labeled, validator, reply)
    /\ stage' = "sampled"
    /\ UNCHANGED <<signals, added, now, scored, dominance_check, resolution, labeled>>
    /\ UNCHANGED <<storage, scorer>>

\* the system clock moves on between two calls
Tick ==
    /\ stage \in {"scored", "labeled"}
    /\ now + TickDays <= StartDay + MaxTicks * TickDays
    /\ now' = now + TickDays
    /\ UNCHANGED <<stage, signals, added, scored, dominance_check, resolution, labeled, sample>>
    /\ UNCHANGED <<storage, scorer>>

\* one call of a save method; saves and last_url keep the count of calls and
\* the URL of the last one
Saved(st, smp) ==
    /\ storage.saves >= 0
    /\ storage.saves < MaxSaves
    /\ storage' = [st EXCEPT !.saves = @ + 1, !.last_url = smp.repository_url]
    /\ UNCHANGED <<stage, signals, added, now, scored, dominance_check, resolution,
                   labeled, sample, scorer>>

SaveAccepted == \E smp \in AcceptedSamples : Saved(save_accepted(storage, smp), smp)
SaveUncertain == \E smp \in RejectedSamples : Saved(save_uncertain(storage, smp), smp)
SaveUnknown == \E smp \in RejectedSamples : Saved(save_unknown(storage, smp), smp)
SaveRejected == \E smp \in RejectedSamples : Saved(save_rejected(storage, smp), smp)
SaveSample ==
    \E smp \in AcceptedSamples \cup RejectedSamples : Saved(save_sample(storage, smp), smp)

Next ==
    \/ ExtractSignals
    \/ NewSignal
    \/ ScoreSignals
    \/ CheckDominance
    \/ LabelRepository
    \/ ProcessLabeled
    \/ Tick

Spec == Init /\ [][Next]_vars

----------------------------------------------------------------------------
(* check_dominance on ScoredRepository values built directly *)

ScoreValues == {72, 71, 69, 28, 20, 19, 0, -12}

ScoreDicts ==
    {<<[framework |-> "django", score |-> a]>> : a \in ScoreValues}
    \cup {<<[framework |-> "django", score |-> a],
            [framework |-> "fastapi", score |-> b]>> : a, b \in ScoreValues}
    \cup {<<[framework |-> "django", score |-> a],
            [framework |-> "fastapi", score |-> b],
            [framework |-> "vue3", score |-> c]>> : a, b, c \in ScoreValues}

InitDominance ==
    /\ stage = "scored"
    /\ signals = <<>>
    /\ added = 0
    /\ now = StartDay
    /\ \E framework_scores \in ScoreDicts :
          scored = dominance_metrics(<<>>, framework_scores)
    /\ dominance_check = <<>>
    /\ resolution = Unresolved(None)
    /\ labeled = NoLabeled
    /\ sample = NoSample
    /\ storage = NoStorage
    /\ scorer = DefaultScorer

SpecDominance == InitDominance /\ [][CheckDominance]_vars

----------------------------------------------------------------------------
(* OutputStorage on its own, from empty output files *)

InitStorage ==
    /\ stage = "raw"
    /\ signals = <<>>
    /\ added = 0
    /\ now = StartDay
    /\ scored = NoScored
    /\ dominance_check = <<>>
    /\ resolution = Unresolved(None)
    /\ labeled = NoLabeled
    /\ sample = NoSample
    /\ \E check_duplicates \in BOOLEAN : storage = OutputStorage(check_duplicates)
    /\ scorer = DefaultScorer

NextStorage ==
    \/ SaveAccepted
    \/ SaveUncertain
    \/ SaveUnknown
    \/ SaveRejected
    \/ SaveSample

SpecStorage == InitStorage /\ [][NextStorage]_vars

----------------------------------------------------------------------------
(* Properties *)

\* score_signals, and label_repository, has returned; steps 6 and 7 leave
\* scored, resolution and labeled as step 5 left them, so the states after
\* them repeat a state that is covered here
Scored == stage \in {"scored", "labeled"}
Labeled == stage = "labeled"

\* C1: whenever determine_confidence_level returns 4 for the scored
\* repository, label_repository has returned label "unknown",
\* primary_framework None and requires_llm_validation False, whatever
\* resolve_conflicts returned.
Level4Override ==
    (Labeled /\ determine_confidence_level(scored, now) = 4)
    => /\ labeled.label = UNKNOWN
       /\ labeled.primary_framework = None
       /\ labeled.requires_llm_validation = FALSE
       /\ labeled.confidence_level = 4

Level4Labeled ==
    /\ stage = "labeled"
    /\ determine_confidence_level(scored, now) = 4
    /\ resolution = Resolved("")
    /\ labeled.label = UNKNOWN
    /\ labeled.primary_framework = None

\* the frameworks of a signal set that hold a P1 signal
P1Holders(sigs) == Range(FrameworksWith(sigs, P1))
\* every signal of every framework other than f is P5, P6 or P7
OthersWeak(sigs, f) ==
    \A i \in 1..Len(sigs) :
        sigs[i].framework # f =>
            \A j \in 1..Len(sigs[i].signal_list) :
                sigs[i].signal_list[j].priority >= P5

\* C2: when exactly one framework F holds a P1 signal and every signal of
\* every other framework is P5, P6 or P7, resolve_conflicts returns
\* (F, None), also when a competitor out-scores F.
PriorityDominance ==
    Labeled =>
        \A f \in Keys(scored.signal_extracted) :
            (P1Holders(scored.signal_extracted) = {f}
             /\ OthersWeak(scored.signal_extracted, f))
            => resolution = Resolved(f)

P1BeatsHigherScore ==
    /\ stage = "labeled"
    /\ P1Holders(scored.signal_extracted) = {"django"}
    /\ OthersWeak(scored.signal_extracted, "django")
    /\ scored.competing_frameworks[1].framework = "fastapi"
    /\ TopScore(scored) > GetScore(scored.framework_scores, "django")
    /\ resolution = Resolved("django")

\* C3: should_include_in_training is True exactly for a framework-name
\* label at confidence level 1 or 2, and False at level 3 or 4; sample
\* records its answer for the LabeledRepository of step 7.
TrainingInclusion ==
    (stage = "sampled" /\ sample.outcome # "raised")
    => /\ (sample.outcome = "accepted")
          <=> (/\ sample.labeled.label \notin {UNKNOWN, UNCERTAIN}
               /\ sample.labeled.confidence_level \in {1, 2})
       /\ sample.labeled.confidence_level \in {3, 4} => sample.outcome = "rejected"

Level3Excluded ==
    /\ stage = "sampled"
    /\ sample.validator = "disabled"
    /\ sample.labeled = labeled
    /\ labeled.label \notin {UNKNOWN, UNCERTAIN}
    /\ labeled.confidence_level = 3
    /\ sample.outcome = "rejected"

\* no framework of the signal set has a signal
NoEvidence(sigs) == \A i \in 1..Len(sigs) : sigs[i].signal_list = <<>>

\* C4: with no signal for any framework score_signals yields an empty
\* ranking, total 0, ratio 0.0 and gap 0, check_dominance (False, None),
\* determine_confidence_level 4, resolve_conflicts no framework and a
\* reason, and label_repository "unknown" with primary_framework None.
EmptyEvidence ==
    (Scored /\ NoEvidence(scored.signal_extracted))
    => /\ scored.competing_frameworks = <<>>
       /\ scored.framework_scores = <<>>
       /\ scored.total_score = 0
       /\ scored.dominance_ratio = ZeroRatio
       /\ scored.score_gap = 0
       /\ dominance_check # <<>> =>
             dominance_check[1] = [is_dominant |-> FALSE, framework |-> None]
       /\ Labeled =>
             /\ labeled.confidence_level = 4
             /\ resolution.framework = None
             /\ resolution.reason # None
             /\ labeled.label = UNKNOWN
             /\ labeled.primary_framework = None

EmptyListsLabeled ==
    /\ stage = "labeled"
    /\ Len(scored.signal_extracted) = 2
    /\ NoEvidence(scored.signal_extracted)
    /\ dominance_check # <<>>
    /\ labeled.label = UNKNOWN

\* C5: for a ScoredRepository with a ranked framework, check_dominance
\* answers is_dominant = True exactly when dominance_ratio >= 0.70 and
\* score_gap / top_score >= 0.10, the gap ratio being 0 when top_score is
\* 0; so a ratio of 0.70 or more with a smaller gap is not dominant.
DominanceRule ==
    (dominance_check # <<>> /\ scored.competing_frameworks # <<>>)
    => LET top_score == scored.competing_frameworks[1].score
           ratio_ok == 100 * scored.dominance_ratio.num
                          >= 70 * scored.dominance_ratio.den
           \* score_gap / top_score >= 10 / 100, by the sign of top_score
           gap_ok == IF top_score = 0 THEN FALSE
                     ELSE IF top_score > 0
                          THEN 100 * scored.score_gap >= 10 * top_score
                          ELSE 100 * scored.score_gap <= 10 * top_score
       IN /\ dominance_check[1].is_dominant <=> (ratio_ok /\ gap_ok)
          /\ (ratio_ok /\ ~gap_ok) => ~dominance_check[1].is_dominant

ScenarioD ==
    /\ scored.framework_scores = <<[framework |-> "django", score |-> 72],
                                   [framework |-> "fastapi", score |-> 28]>>
    /\ scored.dominance_ratio = Ratio(72, 100)
    /\ scored.score_gap = 44
    /\ dominance_check = <<[is_dominant |-> TRUE, framework |-> "django"]>>

\* C6: the ScoredRepository of score_signals has 0 <= dominance_ratio <= 1,
\* and dominance_ratio = 0 exactly when total_score = 0; the ratio is a
\* number also when the total is 0.
RatioBounds ==
    Scored =>
        /\ scored.dominance_ratio.den > 0
        /\ 0 <= scored.dominance_ratio.num
        /\ scored.dominance_ratio.num <= scored.dominance_ratio.den
        /\ (scored.dominance_ratio.num = 0) <=> (scored.total_score = 0)

ZeroTotalScored ==
    /\ stage = "scored"
    /\ signals # <<>>
    /\ scored.signal_extracted = signals
    /\ scored.total_score = 0
    /\ scored.dominance_ratio = ZeroRatio

\* the step is a second call of score_signals on the signal set of scored
Rescored ==
    /\ stage = "scored" /\ stage' = "scored"
    /\ scored.signal_extracted = signals
    /\ signals' = signals
    /\ now' = now
    /\ dominance_check' = <<>>
\* the step is a second call of label_repository on the same scored repository
Relabeled ==
    /\ stage = "labeled" /\ stage' = "labeled"
    /\ scored' = scored
    /\ now' = now

\* C7: a second call of score_signals or of label_repository (and with it
\* of determine_confidence_level and resolve_conflicts) on the same signal
\* set returns what the first call returned, whatever the clock reads at
\* each call.
Idempotence ==
    [][/\ Rescored => scored' = scored
       /\ Relabeled => labeled' = labeled /\ resolution' = resolution]_vars

\* new has one more signal than old: a STRONG one at the end of f's list
OneMoreStrong(old, new, f) ==
    /\ Len(new) = Len(old)
    /\ \A i \in 1..Len(old) :
          /\ new[i].framework = old[i].framework
          /\ new[i].framework # f => new[i].signal_list = old[i].signal_list
          /\ new[i].framework = f =>
                LET n == Len(new[i].signal_list)
                IN /\ n = Len(old[i].signal_list) + 1
                   /\ SubSeq(new[i].signal_list, 1, n - 1) = old[i].signal_list
                   /\ new[i].signal_list[n].signal_type = STRONG

\* C8: when the top-ranked framework T of a scored signal set gets one more
\* STRONG signal and score_signals runs again at the same clock reading, T
\* is ranked first again.
RankMonotone ==
    [][(/\ stage = "scored" /\ stage' = "scored"
        /\ now = StartDay
        /\ scored.competing_frameworks # <<>>
        /\ OneMoreStrong(scored.signal_extracted, signals,
                         scored.competing_frameworks[1].framework)
        /\ signals' = signals
        /\ scored'.signal_extracted = signals)
       => scored'.competing_frameworks[1].framework
             = scored.competing_frameworks[1].framework]_vars

\* C9: every Signal has the weight of the table for its priority, in the
\* signal set and in the snapshot that score, resolve, confidence and label
\* work on.
WeightOfPriority ==
    \A sigs \in {signals, scored.signal_extracted} :
        \A i \in 1..Len(sigs) :
            \A j \in 1..Len(sigs[i].signal_list) :
                sigs[i].signal_list[j].weight
                    = PRIORITY_WEIGHTS[sigs[i].signal_list[j].priority]

\* a Signal constructed with weight WrongWeight has been scored and labeled
WrongWeightLabeled ==
    /\ stage = "labeled"
    /\ added > 0
    /\ scored.signal_extracted = signals
    /\ \E i \in 1..Len(signals) :
          \E j \in 1..Len(signals[i].signal_list) :
             /\ signals[i].signal_list[j].priority = P1
             /\ WrongWeight # PRIORITY_WEIGHTS[P1]
             /\ j = Len(signals[i].signal_list)
             /\ signals[i].signal_list[j].signal_type = WEAK

\* the adjudication of the sample failed: no client in the validator, a
\* call that raised, or a response that is no JSON
AdjudicationFailed ==
    /\ stage = "sampled"
    /\ labeled.requires_llm_validation
    /\ \/ sample.validator = "none"
       \/ sample.validator = "chat" /\ sample.reply \in {"raise", "not_json"}

\* C10: on every adjudication failure validate_repository and
\* process_repository return, and the final label, primary_framework and
\* confidence_level are those of label_repository.
AdjudicationFallback ==
    AdjudicationFailed =>
        /\ sample.outcome # "raised"
        /\ sample.labeled.label = labeled.label
        /\ sample.labeled.primary_framework = labeled.primary_framework
        /\ sample.labeled.confidence_level = labeled.confidence_level

\* the number of records with repository URL u in a file
RECURSIVE CountUrl(_, _)
CountUrl(file, u) ==
    IF file = <<>> THEN 0
    ELSE (IF Head(file).repository_url = u THEN 1 ELSE 0) + CountUrl(Tail(file), u)

\* the number of records with repository URL u in the four files together
Stored(st, u) ==
    CountUrl(st.files["accepted"], u) + CountUrl(st.files["uncertain"], u)
    + CountUrl(st.files["unknown"], u) + CountUrl(st.files["rejected"], u)

UniqueUrls ==
    storage.check_duplicates =>
        \A u \in RepositoryUrls \ {""} : Stored(storage, u) <= 1

DuplicateSaveIgnored ==
    (/\ storage.check_duplicates
     /\ storage'.saves = storage.saves + 1
     /\ storage'.last_url # ""
     /\ Stored(storage, storage'.last_url) > 0)
    => storage'.files = storage.files

\* C11: with duplicate checking enabled and empty output files to begin
\* with, every non-empty repository URL is in at most one record of the
\* four files together after any sequence of save calls, and a save for
\* such a URL that is already in one of the files changes none of them.
StorageDedup == []UniqueUrls /\ [][DuplicateSaveIgnored]_vars

SecondSaveSkipped ==
    /\ storage.check_duplicates
    /\ storage.saves = 2
    /\ storage.last_url = "https://github.com/o/a"
    /\ storage.files["accepted"]
          = <<[repository_url |-> "https://github.com/o/a", label |-> "django",
               kind |-> "AcceptedSample"]>>
    /\ storage.files["uncertain"] = <<>>
    /\ storage.files["unknown"] = <<>>
    /\ storage.files["rejected"] = <<>>

\* the signals of the top-ranked framework
TopSignals(sc) == GetSignals(sc.signal_extracted, sc.competing_frameworks[1].framework)
StrongCount(signal_list) ==
    Cardinality({i \in 1..Len(signal_list) : signal_list[i].signal_type = STRONG})
WeakSum(signal_list) ==
    SumSeq([i \in 1..Len(signal_list) |->
               IF signal_list[i].signal_type = WEAK THEN signal_list[i].weight ELSE 0])

\* C12: when the top-ranked framework has no STRONG signal and the weights
\* of its WEAK signals sum to less than 5, the confidence level is 4 and the
\* label is "unknown".
WeakBelowThresholdUnknown ==
    (/\ Labeled
     /\ scored.competing_frameworks # <<>>
     /\ StrongCount(TopSignals(scored)) = 0
     /\ WeakSum(TopSignals(scored)) < 5)
    => /\ labeled.confidence_level = 4
       /\ labeled.label = UNKNOWN

\* C13: for a signal set with a ranked framework in which every signal has
\* priority P5, P6 or P7, resolve_conflicts returns no framework and the
\* "only weak signals" reason, whatever the scores.
OnlyWeakUnresolved ==
    (/\ Labeled
     /\ scored.competing_frameworks # <<>>
     /\ AllAtLeast(scored.signal_extracted, P5))
    => resolution = Unresolved("Only weak signals (P5-) detected")

\* the two top frameworks are close: dominance_ratio < 0.70 and
\* (top - second) / top < 0.10
CloseRace(sc) ==
    /\ Len(sc.competing_frameworks) >= 2
    /\ 100 * sc.dominance_ratio.num < 70 * sc.dominance_ratio.den
    /\ TopScore(sc) > 0
    /\ 100 * (TopScore(sc) - SecondScore(sc)) < 10 * TopScore(sc)

\* C14: for a repository without P1 and P2 signals whose two top
\* frameworks are close, the label is "uncertain", never the name of the
\* top framework.
CloseRaceUncertain ==
    (/\ Labeled
     /\ AllAtLeast(scored.signal_extracted, P3)
     /\ CloseRace(scored))
    => /\ labeled.label = UNCERTAIN
       /\ labeled.label # scored.competing_frameworks[1].framework

\* C15: the Level 1 to Level 4 rules of determine_confidence_level cover
\* every top framework, so its last return, "Default to Level 3", is never
\* the one taken.
RulesExhaustive ==
    Scored => confidence_rule(scored, now).rule # "Default"

\* the scores of a signal set before the recency boost
PreBoost(sigs) == apply_priority_rules(calculate_framework_scores(sigs), sigs)

\* what a signal of framework f adds to f's score when every P5, P6 or P7
\* signal of a framework counts weight - trunc(weight / 2) as soon as some
\* other framework holds a P1 signal
Contribution(sigs, f, s) ==
    IF s.priority >= P5 /\ P1Holders(sigs) \ {f} # {}
    THEN s.weight - (s.weight \div 2)
    ELSE s.weight

\* C16: when some framework G holds a P1 signal, each P5, P6 or P7 signal
\* of every framework other than G, a P1 holder or not, adds weight -
\* trunc(weight/2) to the pre-boost score, and with no P1 signal anywhere
\* every signal adds its weight.
PriorityOverride ==
    Scored =>
        \A i \in 1..Len(scored.signal_extracted) :
            LET f == scored.signal_extracted[i].framework
                signal_list == scored.signal_extracted[i].signal_list
            IN signal_list # <<>> =>
                  GetScore(PreBoost(scored.signal_extracted), f)
                     = SumSeq([j \in 1..Len(signal_list) |->
                                  Contribution(scored.signal_extracted, f, signal_list[j])])

\* the step is a call of score_signals on the current signal set
ScoreStep ==
    /\ stage \in {"signal_extracted", "scored"} /\ stage' = "scored"
    /\ signals' = signals
    /\ now' = now
    /\ scored'.signal_extracted = signals
    /\ dominance_check' = <<>>

\* the signals of a list that carry a timestamp of the last 365 days
RecentCount(signal_list, clock) ==
    Cardinality({j \in 1..Len(signal_list) :
        /\ signal_list[j].last_modified # NoTimestamp
        /\ clock - signal_list[j].last_modified <= 365})

\* C17: score_signals gives a framework with post-override score s the
\* score s + trunc(s/10) when at least half of its signals carry a
\* timestamp of the last 365 days and s otherwise, and ranks the frameworks
\* by these scores.
RecencyBoost ==
    [][ScoreStep =>
         /\ Len(scored'.framework_scores) = Len(PreBoost(signals))
         /\ \A i \in 1..Len(PreBoost(signals)) :
               LET f == PreBoost(signals)[i].framework
                   s == PreBoost(signals)[i].score
                   signal_list == GetSignals(signals, f)
               IN scored'.framework_scores[i] =
                     [framework |-> f,
                      score |-> IF 2 * RecentCount(signal_list, now) >= Len(signal_list)
                                THEN s + (s \div 10) ELSE s]
         /\ scored'.competing_frameworks = SortedDesc(scored'.framework_scores)]_vars

BoostedAheadOfUndated ==
    /\ stage = "scored"
    /\ scored.signal_extracted = signals
    /\ PreBoost(signals) = <<[framework |-> "django", score |-> 14],
                             [framework |-> "fastapi", score |-> 14]>>
    /\ scored.competing_frameworks = <<[framework |-> "django", score |-> 15],
                                       [framework |-> "fastapi", score |-> 14]>>

\* one framework with exactly one P1, one P2 and one P3 signal, all STRONG
\* and dated within the last 365 days of the clock
ScenarioA(sigs, clock) ==
    /\ Len(sigs) = 1
    /\ Len(sigs[1].signal_list) = 3
    /\ \A p \in {P1, P2, P3} : HasPriority(sigs[1].signal_list, p)
    /\ \A j \in 1..3 : sigs[1].signal_list[j].signal_type = STRONG
    /\ RecentCount(sigs[1].signal_list, clock) = 3
    /\ sigs[1].framework # ""

\* the repository of scenario A has been scored, labeled and sampled without
\* the clock moving
ScenarioADone ==
    /\ stage = "sampled"
    /\ now = StartDay
    /\ sample.validator = "disabled"
    /\ ScenarioA(scored.signal_extracted, now)

\* C18 as stated: scenario A gives score 25 and dominance_ratio 1.0,
\* confidence level 1, the framework's name as label, and a sample accepted
\* for training.
ScenarioAScore25 ==
    ScenarioADone =>
        /\ scored.framework_scores[1].score = 25
        /\ scored.dominance_ratio.num = scored.dominance_ratio.den
        /\ labeled.confidence_level = 1
        /\ labeled.label = scored.signal_extracted[1].framework
        /\ sample.outcome = "accepted"

\* C18, amended: scenario A gives score 27, the sum 25 of the weights plus
\* the recency boost trunc(25/10), dominance_ratio 1.0, confidence level 1,
\* the framework's name as label, and a sample accepted for training.
ScenarioAScore27 ==
    ScenarioADone =>
        /\ scored.framework_scores = <<[framework |-> scored.signal_extracted[1].framework,
                                        score |-> 27]>>
        /\ scored.total_score = 27
        /\ scored.dominance_ratio.num = scored.dominance_ratio.den
        /\ scored.dominance_ratio.num > 0
        /\ labeled.confidence_level = 1
        /\ labeled.label = scored.signal_extracted[1].framework
        /\ labeled.primary_framework = scored.signal_extracted[1].framework
        /\ sample.outcome = "accepted"

ScenarioAAccepted ==
    /\ ScenarioADone
    /\ scored.signal_extracted[1].framework = "django"
    /\ sample.outcome = "accepted"
    /\ sample.labeled.label = "django"

\* C19: without P1 and P2 signals resolve_conflicts returns the top-ranked
\* framework exactly when the plain sum of its signal weights, without the
\* recency boost, is at least 15, and otherwise no framework with the
\* "insufficient P3-P4 signal strength" reason.
RawScoreThreshold ==
    (/\ Labeled
     /\ scored.competing_frameworks # <<>>
     /\ AllAtLeast(scored.signal_extracted, P3))
    => LET top_framework == scored.competing_frameworks[1].framework
           raw_score == SumSeq(Weights(TopSignals(scored)))
       IN IF raw_score >= 15
          THEN resolution = Resolved(top_framework)
          ELSE resolution = Unresolved("Insufficient P3-P4 signal strength")

\* the frameworks of a signal set holding a signal of priority p or stronger
Holders(sigs, p) ==
    {sigs[i].framework : i \in {k \in 1..Len(sigs) :
        \E j \in 1..Len(sigs[k].signal_list) : sigs[k].signal_list[j].priority <= p}}

\* the sum of the scores of a set of frameworks
RECURSIVE ScoreSum(_, _)
ScoreSum(sc, frameworks) ==
    IF frameworks = {} THEN 0
    ELSE LET f == CHOOSE g \in frameworks : TRUE
         IN GetScore(sc.framework_scores, f) + ScoreSum(sc, frameworks \ {f})

\* f has the highest score of the group and at least 0.70 of its total
WinsAmong(sc, f, frameworks) ==
    /\ f \in frameworks
    /\ \A g \in frameworks :
          GetScore(sc.framework_scores, g) <= GetScore(sc.framework_scores, f)
    /\ 100 * GetScore(sc.framework_scores, f) >= 70 * ScoreSum(sc, frameworks)

\* C20: with two or more P1 frameworks the highest-scoring of them wins
\* if it has 0.70 of their combined score; otherwise, and with no P1 but two
\* or more P2 frameworks, the highest-scoring framework with a P2 or
\* stronger signal wins if it has 0.70 of the combined score of those, and
\* else the result is unresolved, "multiple frameworks with similar P2+
\* signals".
MultipleHolders ==
    Labeled =>
        LET sigs == scored.signal_extracted
            p1 == Holders(sigs, P1)
            p2_plus == Holders(sigs, P2)
        IN /\ Cardinality(p1) >= 2 =>
                 \A f \in p1 : WinsAmong(scored, f, p1) => resolution = Resolved(f)
           /\ (\/ /\ Cardinality(p1) >= 2
                  /\ \A f \in p1 : ~WinsAmong(scored, f, p1)
               \/ /\ p1 = {}
                  /\ Cardinality(p2_plus) >= 2)
              => /\ \A f \in p2_plus :
                       WinsAmong(scored, f, p2_plus) => resolution = Resolved(f)
                 /\ (\A f \in p2_plus : ~WinsAmong(scored, f, p2_plus))
                       => resolution
                            = Unresolved("Multiple frameworks with similar P2+ signals")

\* two P1 frameworks, neither with 0.70 of their 86 points, and a third
\* framework with P2: the three are compared and none has 0.70
SimilarP2Plus ==
    /\ stage = "labeled"
    /\ Holders(scored.signal_extracted, P1) = {"django", "fastapi"}
    /\ Holders(scored.signal_extracted, P2) = {"django", "fastapi", "vue3"}
    /\ scored.competing_frameworks[1] = [framework |-> "django", score |-> 44]
    /\ resolution = Unresolved("Multiple frameworks with similar P2+ signals")

\* C21: when the confidence level is not 4 and check_dominance reports the
\* top framework as dominant, label and primary_framework are that
\* framework, and validation is required exactly at level 3 and above.
DominantLabel ==
    (Labeled /\ labeled.confidence_level # 4 /\ check_dominance(scored).is_dominant)
    => /\ labeled.label = check_dominance(scored).framework
       /\ labeled.primary_framework = check_dominance(scored).framework
       /\ labeled.requires_llm_validation <=> labeled.confidence_level >= 3

\* a dominant framework at level 3 that the resolver did not name
DominantOverResolver ==
    /\ stage = "labeled"
    /\ check_dominance(scored).is_dominant
    /\ labeled.confidence_level = 3
    /\ resolution.framework # check_dominance(scored).framework
    /\ labeled.label = check_dominance(scored).framework
    /\ labeled.requires_llm_validation

\* C22: when resolve_conflicts returns no framework, the label is
\* "uncertain", or "unknown" at confidence level 4, never a framework name,
\* and an "uncertain" label requires validation.
UnresolvedNeverNamed ==
    (Labeled /\ resolution.framework = None)
    => /\ labeled.label = (IF labeled.confidence_level = 4 THEN UNKNOWN ELSE UNCERTAIN)
       /\ labeled.label = UNCERTAIN => labeled.requires_llm_validation

\* C23: when resolve_conflicts returns a reason, the rejection_reason of
\* the labelled repository is that reason.
ResolverReasonKept ==
    (Labeled /\ resolution.reason # None)
    => labeled.rejection_reason = resolution.reason

\* the place of framework f among the keys of the signal mapping
PositionOf(sigs, f) == CHOOSE i \in 1..Len(sigs) : sigs[i].framework = f

\* C24: competing_frameworks holds the final scores in non-increasing
\* order, equal scores in the order of the input mapping, and total_score
\* is the sum of the final scores.
RankingOrder ==
    Scored =>
        LET ranking == scored.competing_frameworks
            sigs == scored.signal_extracted
        IN /\ Len(ranking) = Len(scored.framework_scores)
           /\ Range(ranking) = Range(scored.framework_scores)
           /\ \A i, j \in 1..Len(ranking) :
                 i < j =>
                    /\ ranking[i].score >= ranking[j].score
                    /\ ranking[i].score = ranking[j].score
                          => PositionOf(sigs, ranking[i].framework)
                               < PositionOf(sigs, ranking[j].framework)
           /\ scored.total_score = SumSeq([i \in 1..Len(ranking) |-> ranking[i].score])

\* the third framework of the mapping ranked first, ahead of two equal
\* scores that keep their order
TieBehindLatecomer ==
    /\ stage = "scored"
    /\ Len(scored.competing_frameworks) = 3
    /\ Keys(scored.signal_extracted) = {"django", "fastapi", "vue3"}
    /\ scored.competing_frameworks[1].framework = "vue3"
    /\ scored.competing_frameworks[2].framework = "django"
    /\ scored.competing_frameworks[2].score = scored.competing_frameworks[3].score
    /\ scored.competing_frameworks[1].score > scored.competing_frameworks[2].score

\* a step in which score_signals returned: the mapping it was given is the
\* one held before and after, and it is the one the ScoredRepository refers to
ScoreSignalsFrame ==
    (scored' # scored \/ (stage = "signal_extracted" /\ stage' = "scored"))
    => /\ signals' = signals
       /\ scored'.signal_extracted = signals

\* a step in which check_dominance, determine_confidence_level,
\* resolve_conflicts or label_repository returned
ReadersFrame ==
    (\/ labeled' # labeled
     \/ resolution' # resolution
     \/ dominance_check' # dominance_check /\ dominance_check' # <<>>
     \/ stage' = "labeled")
    => /\ scored' = scored
       /\ signals' = signals

\* C25: score_signals, check_dominance, determine_confidence_level,
\* resolve_conflicts and label_repository leave the signal mapping, its
\* signals and the ScoredRepository as they were, and the scorer keeps the
\* thresholds of its construction.
InputsUnchanged ==
    [][ScoreSignalsFrame /\ ReadersFrame /\ scorer' = scorer]_vars

\* all five have been called on a mapping with an empty signal list and on
\* its ScoredRepository
CalledOnEmptyLists ==
    /\ stage = "labeled"
    /\ signals # <<>>
    /\ \E i \in 1..Len(signals) : signals[i].signal_list = <<>>
    /\ scored.signal_extracted = signals
    /\ dominance_check = <<check_dominance(scored)>>
    /\ labeled = label_repository(scored, now)
    /\ scorer = DefaultScorer

\* framework f has six or more signals, all of them WEAK and P5 to P7, and
\* another framework holds a P1 signal
ManyWeakAgainstP1(sigs, f) ==
    /\ f \in Keys(sigs)
    /\ Len(GetSignals(sigs, f)) >= 6
    /\ \A s \in Range(GetSignals(sigs, f)) : s.signal_type = WEAK /\ s.priority >= P5
    /\ P1Holders(sigs) \ {f} # {}

CloseRaceReason ==
    "Top two frameworks within 10% gap (dominance threshold met but gap insufficient)"

\* C27: with the thresholds of the default scorer, a ScoredRepository of
\* score_signals that meets the dominance threshold also meets the gap, so
\* check_dominance reports it dominant and label_repository never takes its
\* close-race override.
NoCloseRace ==
    /\ (Scored /\ RatioGE(scored.dominance_ratio, scorer.dominance_threshold))
       => /\ TopScore(scored) > 0
          /\ 100 * (TopScore(scored) - SecondScore(scored))
                >= scorer.minimum_gap_ratio * TopScore(scored)
          /\ check_dominance(scored).is_dominant
    /\ Labeled => labeled.rejection_reason # CloseRaceReason

\* the threshold met with a runner-up that has points: 25 against 10
ThresholdMetWithRunnerUp ==
    /\ stage = "labeled"
    /\ Len(scored.competing_frameworks) = 2
    /\ TopScore(scored) = 25
    /\ SecondScore(scored) = 10
    /\ RatioGE(scored.dominance_ratio, scorer.dominance_threshold)
    /\ dominance_check = <<[is_dominant |-> TRUE, framework |-> "django"]>>
    /\ labeled.label = "django"

\* what resolve_conflicts returns up to its step 4
EarlyResolutions(sc) ==
    {Resolved(f) : f \in Keys(sc.signal_extracted)}
    \cup {Unresolved("No framework signals detected"),
          Unresolved("Multiple frameworks with similar P2+ signals"),
          Unresolved("Insufficient P3-P4 signal strength")}

\* C28: resolve_conflicts returns a framework of the mapping or one of the
\* three reasons of its steps 0, 3 and 4; the reasons of step 5 and of the
\* default part are never returned.
ResolvedByStepFour ==
    /\ Scored => resolve_conflicts(scored) \in EarlyResolutions(scored)
    /\ Labeled => resolution \in EarlyResolutions(scored)

\* nothing but P5 to P7 signals, caught by step 4
WeakCaughtByStepFour ==
    /\ stage = "labeled"
    /\ scored.competing_frameworks # <<>>
    /\ AllAtLeast(scored.signal_extracted, P5)
    /\ resolution = Unresolved("Insufficient P3-P4 signal strength")

\* label and primary_framework agree, and the level is one of the four
Consistent(lab) ==
    /\ lab.label \in {UNCERTAIN, UNKNOWN} <=> lab.primary_framework = None
    /\ lab.label \notin {UNCERTAIN, UNKNOWN} => lab.label = lab.primary_framework
    /\ lab.confidence_level \in 1..4

\* C29: the LabeledRepository returned by label_repository, and the one
\* left by the adjudication step, has label "uncertain" or "unknown" exactly
\* when primary_framework is None, label = primary_framework otherwise, and
\* a confidence level from 1 to 4.
LabelConsistent ==
    /\ Labeled => Consistent(labeled)
    /\ (stage = "sampled" /\ sample.outcome # "raised") => Consistent(sample.labeled)

\* C30: when exactly one framework holds a P1 signal, the label is that
\* framework.
SingleP1Label ==
    Labeled =>
        \A f \in Keys(scored.signal_extracted) :
            P1Holders(scored.signal_extracted) = {f} => labeled.label = f

====
